---- MODULE Spec2Model ----
(***************************************************************************)
(* RoutingLocalizationModule of pgdrive                                    *)
(* (pgdrive/scene_creator/vehicle_module/routing_localization.py):         *)
(* route planning (update, set_route), lane localization                   *)
(* (get_current_lane), the checkpoint window                               *)
(* (_update_target_checkpoints) and the navigation feature vector          *)
(* (_get_info_for_checkpoint), one instance per vehicle.                   *)
(*                                                                         *)
(* Python's None is "None" where a node or an exception name is expected,  *)
(* the empty tuple NoneT where a road, a lane, a lane index, a lane list   *)
(* or the window is expected, NoList for the route and NoSocket for a      *)
(* socket.  Lists are sequences; the window _target_checkpoints_index      *)
(* keeps the code's 0-based indices, and At reads a list at a 0-based      *)
(* index.  A lane object is identified by its lane index                   *)
(* <<start node, end node, number>>.  Real numbers are exact fractions     *)
(* <<numerator, denominator>>; lengths are in metres, angles in radians    *)
(* kept as multiples of pi / PiDen.                                        *)
(***************************************************************************)
EXTENDS Integers, Sequences, FiniteSets, TLC

None == "None"

NoneT == << >>

NoList == << None >>

(***************************************************************************)
(* Class constants of RoutingLocalizationModule.                           *)
(***************************************************************************)
navigation_info_dim == 10
NAVI_POINT_DIST == 50
PRE_NOTIFY_DIST == 40
CKPT_UPDATE_RANGE == 5

(***************************************************************************)
(* The map (an external collaborator, read-only after generation): a first *)
(* block and a last block with two exits, each road with its reverse       *)
(* ("negative") road, and a turn-around at both ends of the main road.     *)
(*                                                                         *)
(*    >  ->  >>  ->  >>>  ->  x1  ->  x2  ->  -x2  ->  -x1  ->  ->>>       *)
(*                   >>>  ->  y1              -y1  ->  ->>>                *)
(*    ->>>  ->  ->>  ->  ->  ->  >                                         *)
(***************************************************************************)
NODE_1 == ">"

LANE_NUM == 2

LANE_WIDTH == 4

CURVE_radius_max == 60

CURVE_angle_max == 135

PiDen == 12

Roads ==
    { <<">", ">>">>, <<">>", ">>>">>, <<"->>>", "->>">>, <<"->>", "->">>,
      <<">>>", "x1">>, <<"x1", "x2">>, <<"-x2", "-x1">>, <<"-x1", "->>>">>,
      <<">>>", "y1">>, <<"-y1", "->>>">>, <<"x2", "-x2">>, <<"->", ">">> }

Nodes == { r[1] : r \in Roads } \cup { r[2] : r \in Roads }

NegativeNodes == { "->>>", "->>", "->", "-x2", "-x1", "-y1" }

\* Road(start, end)
Road(start_node, end_node) == <<start_node, end_node>>

\* Road.is_negative_road: the start node carries the "-" prefix.
is_negative_road(road) == road[1] \in NegativeNodes

\* road_network.graph[start][end]: the road's parallel lanes, left to right.
graph(start_node, end_node) ==
    [ k \in 1..LANE_NUM |-> <<start_node, end_node, k - 1>> ]

\* Road.get_lanes(road_network)
get_lanes(road) == graph(road[1], road[2])

Lanes == { <<r[1], r[2], k>> : r \in Roads, k \in 0..(LANE_NUM - 1) }

(***************************************************************************)
(* Lane geometry.  kind "circular" is a CircularLane, "straight" a         *)
(* StraightLane.  end is position(length, 0) of the road's reference       *)
(* (first) lane and lat the unit lateral direction there, so that          *)
(* position(length, lateral) = end + lateral * lat.  Phases are multiples  *)
(* of pi / PiDen.                                                          *)
(***************************************************************************)
Straight(len, e, l) ==
    [ kind |-> "straight", length |-> len, end |-> e, lat |-> l,
      radius |-> 0, direction |-> 0, start_phase |-> 0, end_phase |-> 0 ]

Circular(len, e, l, r, d, sp, ep) ==
    [ kind |-> "circular", length |-> len, end |-> e, lat |-> l,
      radius |-> r, direction |-> d, start_phase |-> sp, end_phase |-> ep ]

Geometry(road) ==
    CASE road = <<">", ">>">>      -> Straight(40, <<40, 0>>, <<0, 1>>)
      [] road = <<">>", ">>>">>    -> Straight(60, <<100, 0>>, <<0, 1>>)
      [] road = <<">>>", "x1">>    -> Circular(47, <<130, 30>>, <<-1, 0>>, 30, 1, 18, 24)
      [] road = <<"x1", "x2">>     -> Straight(60, <<130, 90>>, <<-1, 0>>)
      [] road = <<">>>", "y1">>    -> Circular(31, <<120, -20>>, <<1, 0>>, 20, -1, 6, 0)
      [] road = <<"-x2", "-x1">>   -> Straight(60, <<138, 30>>, <<1, 0>>)
      [] road = <<"-x1", "->>>">>  -> Circular(220, <<100, 8>>, <<0, -1>>, 70, 1, 0, 12)
      [] road = <<"-y1", "->>>">>  -> Circular(44, <<100, 8>>, <<0, -1>>, 28, 1, 12, 2)
      [] road = <<"->>>", "->>">>  -> Straight(60, <<40, 8>>, <<0, -1>>)
      [] road = <<"->>", "->">>    -> Straight(40, <<0, 8>>, <<0, -1>>)
      [] road = <<"x2", "-x2">>    -> Circular(13, <<138, 90>>, <<1, 0>>, 4, -1, 12, 0)
      [] road = <<"->", ">">>      -> Circular(13, <<0, 0>>, <<0, 1>>, 4, -1, 6, 18)

(***************************************************************************)
(* Blocks and sockets.  A socket is a positive road and its negative       *)
(* road; map.blocks[0] is the first block, map.blocks[-1] the last.        *)
(***************************************************************************)
Socket(positive_road) ==
    [ positive_road |-> positive_road,
      negative_road |-> <<"-" \o positive_road[2], "-" \o positive_road[1]>> ]

NoSocket == [ positive_road |-> NoneT, negative_road |-> NoneT ]

FirstBlockSockets == << Socket(<<">>", ">>>">>) >>

LastBlockSockets == << Socket(<<"x1", "x2">>), Socket(<<">>>", "y1">>) >>

\* block.get_socket_list() of map.blocks[0] / map.blocks[-1]: a fresh list.
get_socket_list(first) == IF first THEN FirstBlockSockets ELSE LastBlockSockets

\* socket.is_socket_node(node): the node is an end of one of its two roads.
is_socket_node(socket, road_node) ==
    road_node \in { socket.positive_road[1], socket.positive_road[2],
                    socket.negative_road[1], socket.negative_road[2] }

(***************************************************************************)
(* Python lists.                                                           *)
(***************************************************************************)
At(list, i) == list[i + 1]

\* x in list
In(x, list) == \E k \in 1..Len(list) : list[k] = x

\* list[a:] for a >= 0
SliceFrom(list, a) == SubSeq(list, a + 1, Len(list))

\* list[a:-1] for a >= 0
SliceFromButLast(list, a) == SubSeq(list, a + 1, Len(list) - 1)

\* list.index(x, a, -1): the first 0-based position of x in a .. len - 2
IndexFromButLast(list, x, a) ==
    CHOOSE i \in a..(Len(list) - 2) :
        /\ At(list, i) = x
        /\ \A k \in a..(i - 1) : At(list, k) # x

\* list.remove(list[k]) for a list of distinct elements (k is 1-based)
RemoveAt(list, k) == SubSeq(list, 1, k - 1) \o SubSeq(list, k + 1, Len(list))

(***************************************************************************)
(* road_network.shortest_path(start, end): breadth-first search over the   *)
(* graph; the node list of a shortest path, [] when there is none (and     *)
(* for start = end, which the search never yields).                        *)
(***************************************************************************)
Successors(node) == { r[2] : r \in { q \in Roads : q[1] = node } }

RangeOf(list) == { list[k] : k \in 1..Len(list) }

RECURSIVE bfs_paths(_, _, _)
bfs_paths(paths, goal, fuel) ==
    IF paths = {} \/ fuel = 0 THEN << >>
    ELSE LET next == { Append(p, n) : p \in paths, n \in Nodes }
             step == { p \in next :
                          /\ p[Len(p)] \in Successors(p[Len(p) - 1])
                          /\ p[Len(p)] \notin RangeOf(SubSeq(p, 1, Len(p) - 1)) }
             done == { p \in step : p[Len(p)] = goal }
         IN  IF done # {} THEN CHOOSE p \in done : TRUE
             ELSE bfs_paths(step, goal, fuel - 1)

ShortestPathTable ==
    [ s \in Nodes, e \in Nodes |-> bfs_paths({ <<s>> }, e, Cardinality(Nodes)) ]

shortest_path(start, end) == ShortestPathTable[start, end]

(***************************************************************************)
(* Exact fractions <<n, d>> with d > 0, in lowest terms.                   *)
(***************************************************************************)
Abs(x) == IF x < 0 THEN -x ELSE x

RECURSIVE Gcd(_, _)
Gcd(a, b) == IF b = 0 THEN a ELSE Gcd(b, a % b)

Frac(n, d) ==
    LET s == IF d < 0 THEN -1 ELSE 1
        g == Gcd(Abs(n), Abs(d))
    IN  IF n = 0 THEN <<0, 1>> ELSE <<(s * n) \div g, (s * d) \div g>>

Whole(n) == <<n, 1>>

Zero == <<0, 1>>

One == <<1, 1>>

FAdd(a, b) == Frac(a[1] * b[2] + b[1] * a[2], a[2] * b[2])

FSub(a, b) == Frac(a[1] * b[2] - b[1] * a[2], a[2] * b[2])

FMul(a, b) == Frac(a[1] * b[1], a[2] * b[2])

FDiv(a, b) == Frac(a[1] * b[2], a[2] * b[1])

FLess(a, b) == a[1] * b[2] < b[1] * a[2]

FLeq(a, b) == a[1] * b[2] <= b[1] * a[2]

\* pgdrive.utils.clip(a, low, high) = min(max(a, low), high)
clip(a, low, high) ==
    LET m == IF FLess(a, low) THEN low ELSE a
    IN  IF FLess(high, m) THEN high ELSE m

\* floor of the square root
RECURSIVE SqrtSearch(_, _, _)
SqrtSearch(s, lo, hi) ==
    IF lo >= hi THEN lo
    ELSE LET mid == (lo + hi + 1) \div 2
         IN  IF mid * mid <= s THEN SqrtSearch(s, mid, hi)
             ELSE SqrtSearch(s, lo, mid - 1)

ISqrt(s) == SqrtSearch(s, 0, 46340)

\* pgdrive.utils.norm(x, y) = sqrt(x ** 2 + y ** 2), kept to NormDigits
\* (1 / NormDigits of a metre; exact whenever the root is a whole number).
NormDigits == 100

norm(x, y) == Frac(ISqrt((x * x + y * y) * NormDigits * NormDigits), NormDigits)

\* np.rad2deg of an angle a * pi / PiDen
rad2deg(a) == Frac(a * 180, PiDen)

(***************************************************************************)
(* Lane Localizer.  possible_lanes is the ray-cast result, nearest hit     *)
(* first: a list of <<lane, lane index, hit distance>>.                    *)
(***************************************************************************)
\* Faulty variant that takes the nearest hit, on the route or not:
get_current_lane_nearest(possible_lanes, ref_lanes) ==
    IF Len(possible_lanes) > 0
    THEN SubSeq(possible_lanes[1], 1, 2)
    ELSE <<NoneT, NoneT>>

get_current_lane(possible_lanes, ref_lanes) ==
    LET on_route == { k \in 1..Len(possible_lanes) : In(possible_lanes[k][1], ref_lanes) }
    IN  IF on_route # {}
        THEN LET k == CHOOSE m \in on_route : \A n \in on_route : m <= n
             IN  <<possible_lanes[k][1], possible_lanes[k][2]>>
        ELSE IF Len(possible_lanes) > 0
             THEN SubSeq(possible_lanes[1], 1, 2)
             ELSE <<NoneT, NoneT>>

(***************************************************************************)
(* Checkpoint Tracker.  index is the window [i, j]; the result is the new  *)
(* window and the value returned.                                          *)
(***************************************************************************)
\* Faulty variants of the tracker, against which the window properties fail.
\* Without the collapse at the last segment:
_update_target_checkpoints_no_collapse(index, route, ego_lane_index, ego_lane_longitude) ==
    IF index[1] = index[2]
    THEN [ index |-> index, ret |-> FALSE ]
    ELSE LET current_road_start_point == ego_lane_index[1]
         IN  IF /\ In(current_road_start_point, SliceFrom(route, index[2]))
                /\ ego_lane_longitude < CKPT_UPDATE_RANGE
             THEN IF ~ In(current_road_start_point, SliceFromButLast(route, index[2]))
                  THEN [ index |-> index, ret |-> FALSE ]
                  ELSE LET idx == IndexFromButLast(route, current_road_start_point, index[2])
                       IN  [ index |-> <<idx, idx + 1>>, ret |-> TRUE ]
             ELSE [ index |-> index, ret |-> FALSE ]

\* Searching the whole route instead of the part from the far index on:
_update_target_checkpoints_whole_route(index, route, ego_lane_index, ego_lane_longitude) ==
    IF index[1] = index[2]
    THEN [ index |-> index, ret |-> FALSE ]
    ELSE LET current_road_start_point == ego_lane_index[1]
         IN  IF /\ In(current_road_start_point, SliceFrom(route, 0))
                /\ ego_lane_longitude < CKPT_UPDATE_RANGE
             THEN IF ~ In(current_road_start_point, SliceFromButLast(route, 0))
                  THEN [ index |-> index, ret |-> FALSE ]
                  ELSE LET idx == IndexFromButLast(route, current_road_start_point, 0)
                       IN  IF idx + 1 = Len(route) - 1
                           THEN [ index |-> <<idx, idx>>, ret |-> TRUE ]
                           ELSE [ index |-> <<idx, idx + 1>>, ret |-> TRUE ]
             ELSE [ index |-> index, ret |-> FALSE ]

\* Moving to the next checkpoint whichever later road was reported:
_update_target_checkpoints_next_only(index, route, ego_lane_index, ego_lane_longitude) ==
    IF index[1] = index[2]
    THEN [ index |-> index, ret |-> FALSE ]
    ELSE LET current_road_start_point == ego_lane_index[1]
         IN  IF /\ In(current_road_start_point, SliceFrom(route, index[2]))
                /\ ego_lane_longitude < CKPT_UPDATE_RANGE
             THEN IF ~ In(current_road_start_point, SliceFromButLast(route, index[2]))
                  THEN [ index |-> index, ret |-> FALSE ]
                  ELSE LET idx == index[2]
                       IN  IF idx + 1 = Len(route) - 1
                           THEN [ index |-> <<idx, idx>>, ret |-> TRUE ]
                           ELSE [ index |-> <<idx, idx + 1>>, ret |-> TRUE ]
             ELSE [ index |-> index, ret |-> FALSE ]

\* With the update range taken to include its bound:
_update_target_checkpoints_inclusive_range(index, route, ego_lane_index, ego_lane_longitude) ==
    IF index[1] = index[2]
    THEN [ index |-> index, ret |-> FALSE ]
    ELSE LET current_road_start_point == ego_lane_index[1]
         IN  IF /\ In(current_road_start_point, SliceFrom(route, index[2]))
                /\ ego_lane_longitude <= CKPT_UPDATE_RANGE
             THEN IF ~ In(current_road_start_point, SliceFromButLast(route, index[2]))
                  THEN [ index |-> index, ret |-> FALSE ]
                  ELSE LET idx == IndexFromButLast(route, current_road_start_point, index[2])
                       IN  IF idx + 1 = Len(route) - 1
                           THEN [ index |-> <<idx, idx>>, ret |-> TRUE ]
                           ELSE [ index |-> <<idx, idx + 1>>, ret |-> TRUE ]
             ELSE [ index |-> index, ret |-> FALSE ]

\* Taking the destination node for the last checkpoint:
_update_target_checkpoints_match_destination(index, route, ego_lane_index, ego_lane_longitude) ==
    IF index[1] = index[2]
    THEN [ index |-> index, ret |-> FALSE ]
    ELSE LET current_road_start_point == ego_lane_index[1]
         IN  IF /\ In(current_road_start_point, SliceFrom(route, index[2]))
                /\ ego_lane_longitude < CKPT_UPDATE_RANGE
             THEN IF ~ In(current_road_start_point, SliceFromButLast(route, index[2]))
                  THEN [ index |-> <<Len(route) - 2, Len(route) - 2>>, ret |-> TRUE ]
                  ELSE LET idx == IndexFromButLast(route, current_road_start_point, index[2])
                       IN  IF idx + 1 = Len(route) - 1
                           THEN [ index |-> <<idx, idx>>, ret |-> TRUE ]
                           ELSE [ index |-> <<idx, idx + 1>>, ret |-> TRUE ]
             ELSE [ index |-> index, ret |-> FALSE ]

\* Returning True where the destination node is passed over:
_update_target_checkpoints_true_on_destination(index, route, ego_lane_index, ego_lane_longitude) ==
    IF index[1] = index[2]
    THEN [ index |-> index, ret |-> FALSE ]
    ELSE LET current_road_start_point == ego_lane_index[1]
         IN  IF /\ In(current_road_start_point, SliceFrom(route, index[2]))
                /\ ego_lane_longitude < CKPT_UPDATE_RANGE
             THEN IF ~ In(current_road_start_point, SliceFromButLast(route, index[2]))
                  THEN [ index |-> index, ret |-> TRUE ]
                  ELSE LET idx == IndexFromButLast(route, current_road_start_point, index[2])
                       IN  IF idx + 1 = Len(route) - 1
                           THEN [ index |-> <<idx, idx>>, ret |-> TRUE ]
                           ELSE [ index |-> <<idx, idx + 1>>, ret |-> TRUE ]
             ELSE [ index |-> index, ret |-> FALSE ]

\* Without the early return in the terminal state:
_update_target_checkpoints_no_early_return(index, route, ego_lane_index, ego_lane_longitude) ==
    LET current_road_start_point == ego_lane_index[1]
    IN  IF /\ In(current_road_start_point, SliceFrom(route, index[2]))
           /\ ego_lane_longitude < CKPT_UPDATE_RANGE
        THEN IF ~ In(current_road_start_point, SliceFromButLast(route, index[2]))
             THEN [ index |-> index, ret |-> FALSE ]
             ELSE LET idx == IndexFromButLast(route, current_road_start_point, index[2])
                  IN  IF idx + 1 = Len(route) - 1
                      THEN [ index |-> <<idx, idx>>, ret |-> TRUE ]
                      ELSE [ index |-> <<idx, idx + 1>>, ret |-> TRUE ]
        ELSE [ index |-> index, ret |-> FALSE ]

_update_target_checkpoints(index, route, ego_lane_index, ego_lane_longitude) ==
    IF index[1] = index[2]
    THEN [ index |-> index, ret |-> FALSE ]
    ELSE LET current_road_start_point == ego_lane_index[1]
         IN  IF /\ In(current_road_start_point, SliceFrom(route, index[2]))
                /\ ego_lane_longitude < CKPT_UPDATE_RANGE
             THEN IF ~ In(current_road_start_point, SliceFromButLast(route, index[2]))
                  THEN [ index |-> index, ret |-> FALSE ]
                  ELSE LET idx == IndexFromButLast(route, current_road_start_point, index[2])
                       IN  IF idx + 1 = Len(route) - 1
                           THEN [ index |-> <<idx, idx>>, ret |-> TRUE ]
                           ELSE [ index |-> <<idx, idx + 1>>, ret |-> TRUE ]
             ELSE [ index |-> index, ret |-> FALSE ]

(***************************************************************************)
(* Navigation Feature Encoder.  ego is the vehicle's pose: position and    *)
(* unit heading.                                                           *)
(***************************************************************************)
\* ref_lane.position(ref_lane.length, lateral)
position_at_end(ref_lane, lateral) ==
    LET g == Geometry(<<ref_lane[1], ref_lane[2]>>)
    IN  <<g.end[1] + lateral * g.lat[1], g.end[2] + lateral * g.lat[2]>>

\* (float(lane_num) / 2 - 0.5) * lane_width
later_middle(lane_num, lane_width) == ((lane_num - 1) * lane_width) \div 2

\* Faulty variant that cuts each coordinate to NAVI_POINT_DIST by itself:
clamp_dir_vec_each_coordinate(dir_vec) ==
    << clip(Whole(dir_vec[1]), Whole(-NAVI_POINT_DIST), Whole(NAVI_POINT_DIST)),
       clip(Whole(dir_vec[2]), Whole(-NAVI_POINT_DIST), Whole(NAVI_POINT_DIST)) >>

\* the direction from the vehicle to the checkpoint, cut to NAVI_POINT_DIST
clamp_dir_vec(dir_vec) ==
    LET dir_norm == norm(dir_vec[1], dir_vec[2])
    IN  IF FLess(Whole(NAVI_POINT_DIST), dir_norm)
        THEN << FMul(FDiv(Whole(dir_vec[1]), dir_norm), Whole(NAVI_POINT_DIST)),
                FMul(FDiv(Whole(dir_vec[2]), dir_norm), Whole(NAVI_POINT_DIST)) >>
        ELSE << Whole(dir_vec[1]), Whole(dir_vec[2]) >>

\* ego_vehicle.projection(vector): onto the heading and onto its left normal
projection(heading, vector) ==
    << FAdd(FMul(vector[1], Whole(heading[1])), FMul(vector[2], Whole(heading[2]))),
       FAdd(FMul(vector[1], Whole(-heading[2])), FMul(vector[2], Whole(heading[1]))) >>

\* Faulty variant of the encoder that leaves the bend radius unclipped:
_get_info_for_checkpoint_unclipped(lanes_id, lanes, ego, lane_num, lane_width) ==
    LET ref_lane == lanes[1]
        g == Geometry(<<ref_lane[1], ref_lane[2]>>)
        check_point == position_at_end(ref_lane, later_middle(lane_num, lane_width))
        dir_vec == clamp_dir_vec(<<check_point[1] - ego.position[1],
                                   check_point[2] - ego.position[2]>>)
        proj == projection(ego.heading, dir_vec)
        circular == g.kind = "circular"
        bendradius == IF circular
                      THEN Frac(g.radius, CURVE_radius_max + lane_num * lane_width)
                      ELSE Zero
        dir == IF circular THEN g.direction ELSE 0
        angle == IF circular /\ dir = 1 THEN g.end_phase - g.start_phase
                 ELSE IF circular /\ dir = -1 THEN g.start_phase - g.end_phase
                 ELSE 0
    IN  [ info |->
            << clip(FDiv(FAdd(FDiv(proj[1], Whole(NAVI_POINT_DIST)), One), Whole(2)), Zero, One),
               clip(FDiv(FAdd(FDiv(proj[2], Whole(NAVI_POINT_DIST)), One), Whole(2)), Zero, One),
               bendradius,
               clip(Frac(dir + 1, 2), Zero, One),
               clip(FDiv(FAdd(FDiv(rad2deg(angle), Whole(CURVE_angle_max)), One), Whole(2)),
                    Zero, One) >>,
          dir_vec |-> dir_vec,
          check_point |-> check_point ]

\* Faulty variant that takes end_phase - start_phase whatever the direction:
_get_info_for_checkpoint_angle_unsigned(lanes_id, lanes, ego, lane_num, lane_width) ==
    LET ref_lane == lanes[1]
        g == Geometry(<<ref_lane[1], ref_lane[2]>>)
        check_point == position_at_end(ref_lane, later_middle(lane_num, lane_width))
        dir_vec == clamp_dir_vec(<<check_point[1] - ego.position[1],
                                   check_point[2] - ego.position[2]>>)
        proj == projection(ego.heading, dir_vec)
        circular == g.kind = "circular"
        bendradius == IF circular
                      THEN Frac(g.radius, CURVE_radius_max + lane_num * lane_width)
                      ELSE Zero
        dir == IF circular THEN g.direction ELSE 0
        angle == IF circular THEN g.end_phase - g.start_phase ELSE 0
    IN  [ info |->
            << clip(FDiv(FAdd(FDiv(proj[1], Whole(NAVI_POINT_DIST)), One), Whole(2)), Zero, One),
               clip(FDiv(FAdd(FDiv(proj[2], Whole(NAVI_POINT_DIST)), One), Whole(2)), Zero, One),
               clip(bendradius, Zero, One),
               clip(Frac(dir + 1, 2), Zero, One),
               clip(FDiv(FAdd(FDiv(rad2deg(angle), Whole(CURVE_angle_max)), One), Whole(2)),
                    Zero, One) >>,
          dir_vec |-> dir_vec,
          check_point |-> check_point ]

\* Faulty variant that cuts the direction for the first checkpoint only:
_get_info_for_checkpoint_far_unclamped(lanes_id, lanes, ego, lane_num, lane_width) ==
    LET ref_lane == lanes[1]
        g == Geometry(<<ref_lane[1], ref_lane[2]>>)
        check_point == position_at_end(ref_lane, later_middle(lane_num, lane_width))
        raw == <<check_point[1] - ego.position[1], check_point[2] - ego.position[2]>>
        dir_vec == IF lanes_id = 0 THEN clamp_dir_vec(raw)
                   ELSE << Whole(raw[1]), Whole(raw[2]) >>
        proj == projection(ego.heading, dir_vec)
        circular == g.kind = "circular"
        bendradius == IF circular
                      THEN Frac(g.radius, CURVE_radius_max + lane_num * lane_width)
                      ELSE Zero
        dir == IF circular THEN g.direction ELSE 0
        angle == IF circular /\ dir = 1 THEN g.end_phase - g.start_phase
                 ELSE IF circular /\ dir = -1 THEN g.start_phase - g.end_phase
                 ELSE 0
    IN  [ info |->
            << clip(FDiv(FAdd(FDiv(proj[1], Whole(NAVI_POINT_DIST)), One), Whole(2)), Zero, One),
               clip(FDiv(FAdd(FDiv(proj[2], Whole(NAVI_POINT_DIST)), One), Whole(2)), Zero, One),
               clip(bendradius, Zero, One),
               clip(Frac(dir + 1, 2), Zero, One),
               clip(FDiv(FAdd(FDiv(rad2deg(angle), Whole(CURVE_angle_max)), One), Whole(2)),
                    Zero, One) >>,
          dir_vec |-> dir_vec,
          check_point |-> check_point ]

_get_info_for_checkpoint(lanes_id, lanes, ego, lane_num, lane_width) ==
    LET ref_lane == lanes[1]
        g == Geometry(<<ref_lane[1], ref_lane[2]>>)
        check_point == position_at_end(ref_lane, later_middle(lane_num, lane_width))
        dir_vec == clamp_dir_vec(<<check_point[1] - ego.position[1],
                                   check_point[2] - ego.position[2]>>)
        proj == projection(ego.heading, dir_vec)
        circular == g.kind = "circular"
        bendradius == IF circular
                      THEN Frac(g.radius, CURVE_radius_max + lane_num * lane_width)
                      ELSE Zero
        dir == IF circular THEN g.direction ELSE 0
        angle == IF circular /\ dir = 1 THEN g.end_phase - g.start_phase
                 ELSE IF circular /\ dir = -1 THEN g.start_phase - g.end_phase
                 ELSE 0
    IN  [ info |->
            << clip(FDiv(FAdd(FDiv(proj[1], Whole(NAVI_POINT_DIST)), One), Whole(2)), Zero, One),
               clip(FDiv(FAdd(FDiv(proj[2], Whole(NAVI_POINT_DIST)), One), Whole(2)), Zero, One),
               clip(bendradius, Zero, One),
               clip(Frac(dir + 1, 2), Zero, One),
               clip(FDiv(FAdd(FDiv(rad2deg(angle), Whole(CURVE_angle_max)), One), Whole(2)),
                    Zero, One) >>,
          dir_vec |-> dir_vec,
          check_point |-> check_point ]

(***************************************************************************)
(* The destination draw of update(): every way the loop                    *)
(*     while True: socket = choice(sockets) ...                            *)
(* can run, as the set of its outcomes.  draws counts the iterations.      *)
(***************************************************************************)
\* Faulty variant of the draw that takes the first socket drawn:
draw_socket_unchecked(sockets, start_road_node, draws) ==
    IF Len(sockets) = 0
    THEN { [ socket |-> NoSocket, raised |-> "ValueError", draws |-> draws ] }
    ELSE { [ socket |-> sockets[k], raised |-> None, draws |-> draws + 1 ]
           : k \in 1..Len(sockets) }

\* Faulty variant that leaves the rejected socket in the list, followed for
\* one iteration more than the list has sockets:
RECURSIVE draw_socket_keep_rejected(_, _, _)
draw_socket_keep_rejected(sockets, start_road_node, draws) ==
    IF Len(sockets) = 0
    THEN { [ socket |-> NoSocket, raised |-> "ValueError", draws |-> draws ] }
    ELSE UNION {
           IF ~ is_socket_node(sockets[k], start_road_node)
           THEN { [ socket |-> sockets[k], raised |-> None, draws |-> draws + 1 ] }
           ELSE IF draws + 1 > Len(sockets)
                THEN { [ socket |-> NoSocket, raised |-> "ValueError", draws |-> draws + 1 ] }
                ELSE draw_socket_keep_rejected(sockets, start_road_node, draws + 1)
           : k \in 1..Len(sockets) }

RECURSIVE draw_socket(_, _, _)
draw_socket(sockets, start_road_node, draws) ==
    IF Len(sockets) = 0
    THEN { [ socket |-> NoSocket, raised |-> "ValueError", draws |-> draws ] }
    ELSE UNION {
           IF ~ is_socket_node(sockets[k], start_road_node)
           THEN { [ socket |-> sockets[k], raised |-> None, draws |-> draws + 1 ] }
           ELSE IF Len(RemoveAt(sockets, k)) = 0
                THEN { [ socket |-> NoSocket, raised |-> "ValueError", draws |-> draws + 1 ] }
                ELSE draw_socket(RemoveAt(sockets, k), start_road_node, draws + 1)
           : k \in 1..Len(sockets) }

(***************************************************************************)
(* State: one RoutingLocalizationModule and one vehicle per element of     *)
(* Vehicles.                                                               *)
(***************************************************************************)
Vehicles == { "v1", "v2" }

VARIABLES
    map,                        \* self.map: None until update() stores the map
    checkpoints,                \* self.checkpoints: the route, a list of nodes
    final_road,                 \* self.final_road
    final_lane,                 \* self.final_lane
    current_ref_lanes,          \* self.current_ref_lanes
    current_road,               \* self.current_road
    _target_checkpoints_index,  \* self._target_checkpoints_index: the window [i, j]
    _navi_info,                 \* self._navi_info
    FORCE_CALCULATE,            \* self.FORCE_CALCULATE
    ego_vehicle,                \* the vehicle: its lane_index and on_lane
    last_call,                  \* the last call on the module and how it ended
    probe                       \* one call of get_current_lane: arguments and result

nav_vars ==
    << checkpoints, final_road, final_lane, current_ref_lanes, current_road,
       _target_checkpoints_index, _navi_info >>

vars ==
    << map, checkpoints, final_road, final_lane, current_ref_lanes, current_road,
       _target_checkpoints_index, _navi_info, FORCE_CALCULATE, ego_vehicle,
       last_call, probe >>

\* np.zeros((navigation_info_dim, ))
zeros == [ k \in 1..navigation_info_dim |-> Zero ]

NoCall ==
    [ op |-> "init", raised |-> None, start |-> None, end |-> None,
      lane_index |-> NoneT, force |-> FALSE, socket |-> NoSocket, draws |-> 0,
      found |-> FALSE, searched |-> FALSE, long |-> 0, moved |-> FALSE,
      pose |-> [ position |-> <<0, 0>>, heading |-> <<0, 0>> ],
      final_road_node |-> None, prev_index |-> NoneT, route_called |-> FALSE,
      dir_vec |-> <<Zero, Zero>>, check_point |-> <<0, 0>> ]

NoProbe ==
    [ possible_lanes |-> << >>, ref_lanes |-> << >>, done |-> FALSE,
      result |-> <<NoneT, NoneT>> ]

\* __init__, and a vehicle that is on no lane yet
InitModule ==
    /\ map = [ v \in Vehicles |-> None ]
    /\ checkpoints = [ v \in Vehicles |-> NoList ]
    /\ final_road = [ v \in Vehicles |-> NoneT ]
    /\ final_lane = [ v \in Vehicles |-> NoneT ]
    /\ current_ref_lanes = [ v \in Vehicles |-> NoneT ]
    /\ current_road = [ v \in Vehicles |-> NoneT ]
    /\ _target_checkpoints_index = [ v \in Vehicles |-> NoneT ]
    /\ _navi_info = [ v \in Vehicles |-> zeros ]
    /\ FORCE_CALCULATE = [ v \in Vehicles |-> FALSE ]
    /\ ego_vehicle \in [ Vehicles -> [ lane_index : { NoneT }, on_lane : BOOLEAN ] ]
    /\ last_call = [ v \in Vehicles |-> NoCall ]

Init == InitModule /\ probe = NoProbe

\* get_navi_info()
get_navi_info(v) == _navi_info[v]

(***************************************************************************)
(* set_route.  The fields after set_route(start, end), and the exception   *)
(* it ends with (None: it returns).  The route is stored before the        *)
(* assertion on its length.                                                *)
(***************************************************************************)
\* Faulty variant of set_route that keeps the window of the previous route:
set_route_fields_keep_window(v, start_road_node, end_road_node) ==
    LET path == shortest_path(start_road_node, end_road_node)
        road == Road(At(path, Len(path) - 2), end_road_node)
        final_lanes == get_lanes(road)
    IN  IF Len(path) > 2
        THEN [ raised |-> None,
               checkpoints |-> path,
               final_road |-> road,
               final_lane |-> final_lanes[Len(final_lanes)],
               index |-> IF _target_checkpoints_index[v] = NoneT THEN <<0, 1>>
                         ELSE _target_checkpoints_index[v],
               navi |-> zeros,
               ref_lanes |-> graph(At(path, 0), At(path, 1)),
               road |-> Road(At(path, 0), At(path, 1)) ]
        ELSE [ raised |-> "AssertionError",
               checkpoints |-> path,
               final_road |-> final_road[v],
               final_lane |-> final_lane[v],
               index |-> _target_checkpoints_index[v],
               navi |-> _navi_info[v],
               ref_lanes |-> current_ref_lanes[v],
               road |-> current_road[v] ]

\* Faulty variant of set_route that accepts a route of two nodes:
set_route_fields_two_nodes(v, start_road_node, end_road_node) ==
    LET path == shortest_path(start_road_node, end_road_node)
        road == Road(At(path, Len(path) - 2), end_road_node)
        final_lanes == get_lanes(road)
    IN  IF Len(path) > 1
        THEN [ raised |-> None,
               checkpoints |-> path,
               final_road |-> road,
               final_lane |-> final_lanes[Len(final_lanes)],
               index |-> <<0, 1>>,
               navi |-> zeros,
               ref_lanes |-> graph(At(path, 0), At(path, 1)),
               road |-> Road(At(path, 0), At(path, 1)) ]
        ELSE [ raised |-> "AssertionError",
               checkpoints |-> path,
               final_road |-> final_road[v],
               final_lane |-> final_lane[v],
               index |-> _target_checkpoints_index[v],
               navi |-> _navi_info[v],
               ref_lanes |-> current_ref_lanes[v],
               road |-> current_road[v] ]

\* Faulty variant of set_route that rejects a route of three nodes:
set_route_fields_four_nodes(v, start_road_node, end_road_node) ==
    LET path == shortest_path(start_road_node, end_road_node)
        road == Road(At(path, Len(path) - 2), end_road_node)
        final_lanes == get_lanes(road)
    IN  IF Len(path) > 3
        THEN [ raised |-> None,
               checkpoints |-> path,
               final_road |-> road,
               final_lane |-> final_lanes[Len(final_lanes)],
               index |-> <<0, 1>>,
               navi |-> zeros,
               ref_lanes |-> graph(At(path, 0), At(path, 1)),
               road |-> Road(At(path, 0), At(path, 1)) ]
        ELSE [ raised |-> "AssertionError",
               checkpoints |-> path,
               final_road |-> final_road[v],
               final_lane |-> final_lane[v],
               index |-> _target_checkpoints_index[v],
               navi |-> _navi_info[v],
               ref_lanes |-> current_ref_lanes[v],
               road |-> current_road[v] ]

set_route_fields(v, start_road_node, end_road_node) ==
    LET path == shortest_path(start_road_node, end_road_node)
        road == Road(At(path, Len(path) - 2), end_road_node)
        final_lanes == get_lanes(road)
    IN  IF Len(path) > 2
        THEN [ raised |-> None,
               checkpoints |-> path,
               final_road |-> road,
               final_lane |-> final_lanes[Len(final_lanes)],
               index |-> <<0, 1>>,
               navi |-> zeros,
               ref_lanes |-> graph(At(path, 0), At(path, 1)),
               road |-> Road(At(path, 0), At(path, 1)) ]
        ELSE [ raised |-> "AssertionError",
               checkpoints |-> path,
               final_road |-> final_road[v],
               final_lane |-> final_lane[v],
               index |-> _target_checkpoints_index[v],
               navi |-> _navi_info[v],
               ref_lanes |-> current_ref_lanes[v],
               road |-> current_road[v] ]

store_route(v, f) ==
    /\ checkpoints' = [ checkpoints EXCEPT ![v] = f.checkpoints ]
    /\ final_road' = [ final_road EXCEPT ![v] = f.final_road ]
    /\ final_lane' = [ final_lane EXCEPT ![v] = f.final_lane ]
    /\ _target_checkpoints_index' = [ _target_checkpoints_index EXCEPT ![v] = f.index ]
    /\ _navi_info' = [ _navi_info EXCEPT ![v] = f.navi ]
    /\ current_ref_lanes' = [ current_ref_lanes EXCEPT ![v] = f.ref_lanes ]
    /\ current_road' = [ current_road EXCEPT ![v] = f.road ]

set_route(v, start_road_node, end_road_node) ==
    /\ IF map[v] = None
       THEN /\ UNCHANGED nav_vars
            /\ last_call' = [ last_call EXCEPT ![v] =
                   [ NoCall EXCEPT !.op = "set_route",
                                   !.start = start_road_node,
                                   !.end = end_road_node,
                                   !.prev_index = _target_checkpoints_index[v],
                                   !.raised = "AttributeError" ] ]
       ELSE LET f == set_route_fields(v, start_road_node, end_road_node)
            IN  /\ store_route(v, f)
                /\ last_call' = [ last_call EXCEPT ![v] =
                       [ NoCall EXCEPT !.op = "set_route",
                                       !.start = start_road_node,
                                       !.end = end_road_node,
                                       !.raised = f.raised,
                                       !.prev_index = _target_checkpoints_index[v],
                                       !.route_called = TRUE ] ]
    /\ UNCHANGED << map, FORCE_CALCULATE, ego_vehicle, probe >>

(***************************************************************************)
(* update(map, current_lane_index, final_road_node): the vehicle has been  *)
(* put on lane current_lane_index.  final_road_node = None asks for a      *)
(* drawn destination.                                                      *)
(***************************************************************************)
\* Taking the positive road's end node whatever the spawn road:
update_destination_positive_end(current_lane_index, final_road_node) ==
    LET start_road_node == IF current_lane_index[1] = None THEN NODE_1
                           ELSE current_lane_index[1]
        current_road_negative ==
            is_negative_road(Road(current_lane_index[1], current_lane_index[2]))
    IN  IF final_road_node # None
        THEN { [ socket |-> NoSocket, raised |-> None, draws |-> 0,
                 start |-> start_road_node, final |-> final_road_node ] }
        ELSE { [ socket |-> d.socket, raised |-> d.raised, draws |-> d.draws,
                 start |-> start_road_node,
                 final |-> IF d.socket = NoSocket THEN None
                           ELSE d.socket.positive_road[2] ]
               : d \in draw_socket(get_socket_list(current_road_negative),
                                   start_road_node, 0) }

update_destination(current_lane_index, final_road_node) ==
    LET start_road_node == IF current_lane_index[1] = None THEN NODE_1
                           ELSE current_lane_index[1]
        current_road_negative ==
            is_negative_road(Road(current_lane_index[1], current_lane_index[2]))
    IN  IF final_road_node # None
        THEN { [ socket |-> NoSocket, raised |-> None, draws |-> 0,
                 start |-> start_road_node, final |-> final_road_node ] }
        ELSE { [ socket |-> d.socket, raised |-> d.raised, draws |-> d.draws,
                 start |-> start_road_node,
                 final |-> IF d.socket = NoSocket THEN None
                           ELSE IF current_road_negative
                                THEN d.socket.negative_road[2]
                                ELSE d.socket.positive_road[2] ]
               : d \in draw_socket(get_socket_list(current_road_negative),
                                   start_road_node, 0) }

update(v, current_lane_index, final_road_node) ==
    \E d \in update_destination(current_lane_index, final_road_node) :
        /\ map' = [ map EXCEPT ![v] = "Map" ]
        /\ ego_vehicle' = [ ego_vehicle EXCEPT ![v].lane_index = current_lane_index ]
        /\ IF d.raised # None
           THEN /\ UNCHANGED nav_vars
                /\ last_call' = [ last_call EXCEPT ![v] =
                       [ NoCall EXCEPT !.op = "update",
                                       !.lane_index = current_lane_index,
                                       !.final_road_node = final_road_node,
                                       !.start = d.start,
                                       !.prev_index = _target_checkpoints_index[v],
                                       !.raised = d.raised,
                                       !.draws = d.draws ] ]
           ELSE LET f == set_route_fields(v, d.start, d.final)
                IN  /\ store_route(v, f)
                    /\ last_call' = [ last_call EXCEPT ![v] =
                           [ NoCall EXCEPT !.op = "update",
                                           !.lane_index = current_lane_index,
                                           !.final_road_node = final_road_node,
                                           !.start = d.start,
                                           !.end = d.final,
                                           !.prev_index = _target_checkpoints_index[v],
                                           !.raised = f.raised,
                                           !.socket = d.socket,
                                           !.draws = d.draws,
                                           !.route_called = TRUE ] ]
        /\ UNCHANGED << FORCE_CALCULATE, probe >>

\* set_force_calculate_lane_index(force)
\* Faulty variant that sets the flag of the class, shared by every module:
set_force_calculate_lane_index_of_class(v, force) ==
    /\ FORCE_CALCULATE' = [ w \in Vehicles |-> force ]
    /\ last_call' = [ last_call EXCEPT ![v] =
           [ NoCall EXCEPT !.op = "set_force_calculate_lane_index", !.force = force ] ]
    /\ UNCHANGED << map, nav_vars, ego_vehicle, probe >>

set_force_calculate_lane_index(v, force) ==
    /\ FORCE_CALCULATE' = [ FORCE_CALCULATE EXCEPT ![v] = force ]
    /\ last_call' = [ last_call EXCEPT ![v] =
           [ NoCall EXCEPT !.op = "set_force_calculate_lane_index", !.force = force ] ]
    /\ UNCHANGED << map, nav_vars, ego_vehicle, probe >>

(***************************************************************************)
(* update_navigation_localization(ego_vehicle): one tick.  possible_lanes  *)
(* is what the ray cast returns, long the longitudinal coordinate of the   *)
(* vehicle on the lane it is localized on, closest what                    *)
(* get_closest_lane_index would return, ego the vehicle's pose.  The       *)
(* vehicle keeps the lane index the tick returns.  last_call keeps, of a   *)
(* tick that returns: found (the ray cast gave a lane), searched           *)
(* (get_closest_lane_index was called), lane_index and long (what          *)
(* _update_target_checkpoints was called with) and moved (what it          *)
(* returned).                                                              *)
(***************************************************************************)
tick_raises(v, error, on_lane) ==
    /\ ego_vehicle' = [ ego_vehicle EXCEPT ![v].on_lane = on_lane ]
    /\ last_call' = [ last_call EXCEPT ![v] =
           [ NoCall EXCEPT !.op = "update_navigation_localization", !.raised = error ] ]
    /\ UNCHANGED << map, checkpoints, final_road, final_lane, current_ref_lanes,
                    current_road, _navi_info, FORCE_CALCULATE, probe >>

\* _get_info_for_checkpoint for every reference lane and pose of the model
Headings == { <<1, 0>>, <<0, 1>>, <<-1, 0>>, <<0, -1>> }

Positions ==
    { <<0, 2>>, <<100, 40>>, <<40, 2>>, <<90, 2>>, <<128, 30>>, <<68, -50>>,
      <<128, -20>>, <<200, 200>>, <<-30, -38>> }

Pose(p, h) == [ position |-> p, heading |-> h ]

Poses == { Pose(p, h) : p \in Positions, h \in Headings }

InfoTable ==
    [ lanes_id \in 0..1, ref_lane \in Lanes, ego \in Poses |->
        _get_info_for_checkpoint(lanes_id, << ref_lane >>, ego, LANE_NUM, LANE_WIDTH) ]

info_for_checkpoint(lanes_id, lanes, ego, lane_num, lane_width) ==
    IF lane_num = LANE_NUM /\ lane_width = LANE_WIDTH /\ ego \in Poses
    THEN InfoTable[lanes_id, lanes[1], ego]
    ELSE _get_info_for_checkpoint(lanes_id, lanes, ego, lane_num, lane_width)

\* Faulty variant of the fallback that searches the nearest lane on every miss:
localize_always_search(possible_lanes, ref_lanes, vehicle, force_calculate, closest) ==
    LET current == get_current_lane(possible_lanes, ref_lanes)
    IN  IF current[1] # NoneT
        THEN [ found |-> TRUE, lane_index |-> current[2],
               on_lane |-> vehicle.on_lane, searched |-> FALSE ]
        ELSE [ found |-> FALSE,
               lane_index |-> IF closest = NoneT THEN <<">", ">>", 0>> ELSE closest,
               on_lane |-> FALSE, searched |-> TRUE ]

\* lines 164-170: the lane the checkpoint update is run with.  found: the ray
\* cast gave a lane; searched: get_closest_lane_index was called.
localize(possible_lanes, ref_lanes, vehicle, force_calculate, closest) ==
    LET current == get_current_lane(possible_lanes, ref_lanes)
    IN  IF current[1] # NoneT
        THEN [ found |-> TRUE, lane_index |-> current[2],
               on_lane |-> vehicle.on_lane, searched |-> FALSE ]
        ELSE IF force_calculate
             THEN [ found |-> FALSE, lane_index |-> closest,
                    on_lane |-> FALSE, searched |-> TRUE ]
             ELSE [ found |-> FALSE, lane_index |-> vehicle.lane_index,
                    on_lane |-> FALSE, searched |-> FALSE ]

\* lines 176-193: the feature vector of the window [i, j]
navi_info_for(route, index, ego) ==
    LET target_lanes_1 == graph(At(route, index[1]), At(route, index[1] + 1))
        target_lanes_2 == graph(At(route, index[2]), At(route, index[2] + 1))
        info_1 == info_for_checkpoint(0, target_lanes_1, ego,
                                      Len(target_lanes_1), LANE_WIDTH)
        info_2 == info_for_checkpoint(1, target_lanes_2, ego,
                                      Len(target_lanes_1), LANE_WIDTH)
        half == navigation_info_dim \div 2
    IN  [ k \in 1..navigation_info_dim |->
            IF k <= half THEN info_1.info[k] ELSE info_2.info[k - half] ]

\* the tick raises after the checkpoint update: l.174, l.176-179
tick_raises_after_update(v, error, loc, long, moved) ==
    /\ ego_vehicle' = [ ego_vehicle EXCEPT ![v].on_lane = loc.on_lane ]
    /\ last_call' = [ last_call EXCEPT ![v] =
           [ NoCall EXCEPT !.op = "update_navigation_localization",
                           !.raised = error,
                           !.found = loc.found,
                           !.searched = loc.searched,
                           !.lane_index = loc.lane_index,
                           !.long = long,
                           !.prev_index = _target_checkpoints_index[v],
                           !.moved = moved ] ]
    /\ UNCHANGED << map, checkpoints, final_road, final_lane, current_ref_lanes,
                    current_road, _navi_info, FORCE_CALCULATE, probe >>

update_navigation_localization(v, possible_lanes, long, closest, ego) ==
    IF current_ref_lanes[v] = NoneT
    THEN \* no route yet: the lookup in current_ref_lanes or in the window fails
         /\ UNCHANGED _target_checkpoints_index
         /\ IF Len(possible_lanes) > 0
            THEN tick_raises(v, "TypeError", ego_vehicle[v].on_lane)
            ELSE tick_raises(v,
                     IF (FORCE_CALCULATE[v] /\ map[v] = None)
                           \/ (~ FORCE_CALCULATE[v] /\ ego_vehicle[v].lane_index = NoneT)
                     THEN "AttributeError" ELSE "TypeError",
                     FALSE)
    ELSE LET loc == localize(possible_lanes, current_ref_lanes[v], ego_vehicle[v],
                              FORCE_CALCULATE[v], closest)
             lane_index == loc.lane_index
             on_lane == loc.on_lane
             upd == _update_target_checkpoints(_target_checkpoints_index[v],
                                               checkpoints[v], lane_index, long)
             i == upd.index[1]
             j == upd.index[2]
             route == checkpoints[v]
         IN  /\ _target_checkpoints_index' =
                    [ _target_checkpoints_index EXCEPT ![v] = upd.index ]
             /\ IF ~ (Len(route) > 2)
                THEN tick_raises_after_update(v, "AssertionError", loc, long, upd.ret)
                ELSE IF i + 1 >= Len(route) \/ j + 1 >= Len(route)
                THEN tick_raises_after_update(v, "IndexError", loc, long, upd.ret)
                ELSE LET target_lanes_1 == graph(At(route, i), At(route, i + 1))
                         first == info_for_checkpoint(0, target_lanes_1, ego,
                                                      Len(target_lanes_1), LANE_WIDTH)
                     IN  /\ current_ref_lanes' =
                                [ current_ref_lanes EXCEPT ![v] = target_lanes_1 ]
                         /\ current_road' =
                                [ current_road EXCEPT ![v] =
                                      Road(At(route, i), At(route, i + 1)) ]
                         /\ _navi_info' =
                                [ _navi_info EXCEPT ![v] =
                                      navi_info_for(route, upd.index, ego) ]
                         /\ ego_vehicle' = [ ego_vehicle EXCEPT ![v].on_lane = on_lane,
                                                                ![v].lane_index = lane_index ]
                         /\ last_call' = [ last_call EXCEPT ![v] =
                                [ NoCall EXCEPT !.op = "update_navigation_localization",
                                                !.found = loc.found,
                                                !.searched = loc.searched,
                                                !.pose = ego,
                                                !.lane_index = lane_index,
                                                !.long = long,
                                                !.prev_index = _target_checkpoints_index[v],
                                                !.moved = upd.ret,
                                                !.dir_vec = first.dir_vec,
                                                !.check_point = first.check_point ] ]
                         /\ UNCHANGED << map, checkpoints, final_road, final_lane,
                                         FORCE_CALCULATE, probe >>

(***************************************************************************)
(* The inputs of the calls.                                                *)
(***************************************************************************)
MaxLong == 5

\* longitudinal positions on both sides of the update range
Longs == (CKPT_UPDATE_RANGE - 1)..MaxLong

\* ray-cast results of at most n hits on the given lanes, nearest first
RayResults(lanes, n) ==
    UNION { { [ k \in 1..m |-> <<hit[k], hit[k], k>> ] : hit \in [ 1..m -> lanes ] }
            : m \in 0..n }

\* lanes along the road to both exits, both lanes of one road, a reverse lane
TickLanes ==
    { <<">", ">>", 0>>, <<">>", ">>>", 0>>, <<">>", ">>>", 1>>, <<">>>", "x1", 0>>,
      <<"x1", "x2", 0>>, <<">>>", "y1", 0>>, <<"->>>", "->>", 0>> }

SpawnLanes == { <<">", ">>", 0>>, <<">>>", "x1", 1>>, <<"->>>", "->>", 0>> }

RouteRequests == { <<">", "x2">>, <<">>", "x1">>, <<">", ">>">>, <<"y1", ">">> }

TickPoses == { Pose(<<0, 2>>, <<1, 0>>) }

Drivers == { "v1" }

Step(v, spawn_lanes, destinations, requests, rays, longs, poses) ==
    \/ \E current_lane_index \in spawn_lanes, final_road_node \in destinations :
           update(v, current_lane_index, final_road_node)
    \/ \E request \in requests : set_route(v, request[1], request[2])
    \/ \E possible_lanes \in rays, long \in longs, ego \in poses :
           \E closest \in IF Len(possible_lanes) = 0 /\ FORCE_CALCULATE[v]
                          THEN TickLanes ELSE { NoneT } :
               update_navigation_localization(v, possible_lanes, long, closest, ego)
    \/ \E force \in BOOLEAN : set_force_calculate_lane_index(v, force)

Next ==
    \E v \in Drivers :
        Step(v, SpawnLanes, { None, "x2" }, RouteRequests, RayResults(TickLanes, 1),
             Longs, TickPoses)

Spec == Init /\ [][Next]_vars

\* Routing alone: roads to spawn on in both directions and on both exits,
\* and routes from six nodes to every node.
RouteSpawnLanes ==
    { <<">", ">>", 0>>, <<">>>", "x1", 0>>, <<">>>", "y1", 1>>, <<"x1", "x2", 0>>,
      <<"-x1", "->>>", 0>>, <<"->>>", "->>", 1>>, <<"->>", "->", 0>> }

RouteStarts == { ">", ">>>", "x1", "y1", "-y1", "->>>" }

NextRoute ==
    \E v \in Drivers :
        \/ \E current_lane_index \in RouteSpawnLanes, final_road_node \in { None, "x2" } :
               update(v, current_lane_index, final_road_node)
        \/ \E start_road_node \in RouteStarts, end_road_node \in Nodes :
               set_route(v, start_road_node, end_road_node)

SpecRoute == Init /\ [][NextRoute]_vars

\* The encoder: few routes, through the bends of the map, and the vehicle in
\* every pose.
NaviLanes == { <<">>", ">>>", 0>>, <<"-x1", "->>>", 0>> }

NextNavi ==
    \E v \in Drivers :
        \/ update(v, <<">", ">>", 0>>, "y1")
        \/ \E request \in { <<"x1", "->>">>, <<"-y1", "->>">> } :
               set_route(v, request[1], request[2])
        \/ \E possible_lanes \in RayResults(NaviLanes, 1), ego \in Poses :
               update_navigation_localization(v, possible_lanes, CKPT_UPDATE_RANGE - 1,
                                              NoneT, ego)

SpecNavi == Init /\ [][NextNavi]_vars

\* get_current_lane alone: one call, on every ray-cast result of at most
\* MaxHits hits on the lanes of three roads, against the lanes of each road.
MaxHits == 2

RayLanes ==
    { l \in Lanes : <<l[1], l[2]>> \in { <<">>", ">>>">>, <<">>>", "x1">>, <<">>>", "y1">> } }

InitRay ==
    /\ InitModule
    /\ probe \in { [ possible_lanes |-> hits, ref_lanes |-> graph(road[1], road[2]),
                      done |-> FALSE, result |-> <<NoneT, NoneT>> ]
                    : hits \in RayResults(RayLanes, MaxHits),
                      road \in { <<">>", ">>>">>, <<">>>", "x1">>, <<"x1", "x2">> } }

call_get_current_lane ==
    /\ ~ probe.done
    /\ probe' = [ probe EXCEPT !.done = TRUE,
                               !.result = get_current_lane(probe.possible_lanes,
                                                           probe.ref_lanes) ]
    /\ UNCHANGED << map, nav_vars, FORCE_CALCULATE, ego_vehicle, last_call >>

NextRay == call_get_current_lane

SpecRay == InitRay /\ [][NextRay]_vars

\* Several vehicles, each with its module, on one map: the calls of all of
\* them in any order, on a short road.
NextMA ==
    \E v \in Vehicles :
        Step(v, { <<">", ">>", 0>> }, { "x1" }, { <<">>", "x1">> },
             RayResults({ <<">>", ">>>", 0>> }, 1), { CKPT_UPDATE_RANGE - 1 }, TickPoses)

SpecMA == Init /\ [][NextMA]_vars

(***************************************************************************)
(* Properties of the checkpoint window.                                    *)
(***************************************************************************)
\* A route is established for v: the last set_route returned normally.  (A
\* set_route that raises has already stored its short or empty path.)
RouteEstablished(v) == Len(checkpoints[v]) > 2

Terminal(v) ==
    /\ _target_checkpoints_index[v] # NoneT
    /\ _target_checkpoints_index[v][1] = _target_checkpoints_index[v][2]

Ticked(call) == call.op = "update_navigation_localization"

RouteSet(call) == call.op \in { "set_route", "update" } /\ call.route_called

\* C1: once a route is established, in every state reached through further
\* successful set_route calls and ticks the window [i, j] satisfies
\* 0 <= i <= j < len(Route) - 1.
C1_WindowInBounds ==
    \A v \in Vehicles :
        RouteEstablished(v) =>
            LET i == _target_checkpoints_index[v][1]
                j == _target_checkpoints_index[v][2]
            IN  0 <= i /\ i <= j /\ j < Len(checkpoints[v]) - 1

\* the window has collapsed on the last segment of a five-node route
C1_Witness ==
    \E v \in Vehicles :
        /\ Len(checkpoints[v]) = 5
        /\ _target_checkpoints_index[v] = <<3, 3>>
        /\ Ticked(last_call[v]) /\ last_call[v].moved

\* C2: for a fixed route (no set_route in between) neither i nor j decreases
\* across a tick, whatever lane the tick reports, lanes on roads earlier in
\* the route included.
C2_WindowMonotone ==
    [][ \A v \in Vehicles :
          ( /\ Ticked(last_call'[v])
            /\ _target_checkpoints_index[v] # NoneT ) =>
              /\ checkpoints'[v] = checkpoints[v]
              /\ _target_checkpoints_index'[v][1] >= _target_checkpoints_index[v][1]
              /\ _target_checkpoints_index'[v][2] >= _target_checkpoints_index[v][2]
      ]_vars

\* a tick within the update range reported the first road of the route while
\* the window was already further on, and the window stayed
C2_Witness ==
    \E v \in Vehicles :
        /\ Ticked(last_call[v]) /\ last_call[v].raised = None
        /\ RouteEstablished(v)
        /\ last_call[v].lane_index[1] = At(checkpoints[v], 0)
        /\ last_call[v].long < CKPT_UPDATE_RANGE
        /\ _target_checkpoints_index[v] = <<2, 3>>

\* C3: in the terminal state [i, i] a tick never changes the window and the
\* checkpoint update reports no movement, whatever the vehicle's lane; the
\* window leaves the terminal state only through a set_route.
C3_TerminalAbsorbing ==
    [][ \A v \in Vehicles :
          Terminal(v) =>
              /\ Ticked(last_call'[v]) =>
                    _target_checkpoints_index'[v] = _target_checkpoints_index[v]
              /\ Ticked(last_call'[v]) /\ last_call'[v] # last_call[v] =>
                    ~ last_call'[v].moved
              /\ _target_checkpoints_index'[v] # _target_checkpoints_index[v] =>
                    RouteSet(last_call'[v])
      ]_vars

\* a tick in the terminal state, within the update range and on the road of
\* the window, that did not move it
C3_Witness ==
    \E v \in Vehicles :
        /\ Terminal(v) /\ RouteEstablished(v)
        /\ Ticked(last_call[v]) /\ last_call[v].raised = None
        /\ ~ last_call[v].moved
        /\ last_call[v].long < CKPT_UPDATE_RANGE
        /\ last_call[v].lane_index[1] =
              At(checkpoints[v], _target_checkpoints_index[v][1])

\* C4: a set_route that returns normally leaves the shortest path as the
\* route, the window at [0, 1], the feature vector all zero, the final road
\* (Route[-2], end node), the final lane the last lane of that road, and the
\* reference lanes and current road those of the first segment, whatever
\* the window was before.
C4_SetRoutePostState ==
    \A v \in Vehicles :
        last_call[v].op = "set_route" /\ last_call[v].raised = None =>
            LET route == checkpoints[v]
                end_road_node == last_call[v].end
            IN  /\ route = shortest_path(last_call[v].start, end_road_node)
                /\ _target_checkpoints_index[v] = <<0, 1>>
                /\ Len(_navi_info[v]) = navigation_info_dim
                /\ \A k \in 1..navigation_info_dim : _navi_info[v][k] = Zero
                /\ final_road[v] = <<route[Len(route) - 1], end_road_node>>
                /\ final_lane[v] = <<route[Len(route) - 1], end_road_node, LANE_NUM - 1>>
                /\ current_ref_lanes[v] =
                      [ k \in 1..LANE_NUM |-> <<route[1], route[2], k - 1>> ]
                /\ current_road[v] = <<route[1], route[2]>>

\* a set_route returned normally in a state whose window was terminal
C4_Witness ==
    \E v \in Vehicles :
        /\ last_call[v].op = "set_route" /\ last_call[v].raised = None
        /\ last_call[v].prev_index # NoneT
        /\ last_call[v].prev_index[1] = last_call[v].prev_index[2]
        /\ _target_checkpoints_index[v] = <<0, 1>>

(***************************************************************************)
(* Properties of set_route and update.                                     *)
(***************************************************************************)
\* the nodes reachable from the nodes of the set by one road or more
RECURSIVE ReachableFrom(_, _)
ReachableFrom(seen, frontier) ==
    LET next == { r[2] : r \in { q \in Roads : q[1] \in frontier } } \ seen
    IN  IF next = {} THEN seen ELSE ReachableFrom(seen \cup next, next)

\* the roads from start to end, if there is a way: 0 for none
RECURSIVE Distance(_, _, _, _)
Distance(seen, frontier, end, n) ==
    IF end \in frontier THEN n
    ELSE LET next == { r[2] : r \in { q \in Roads : q[1] \in frontier } } \ seen
         IN  IF next = {} THEN 0 ELSE Distance(seen \cup next, next, end, n + 1)

\* the call ran set_route on a map
RanSetRoute(call) == call.op \in { "set_route", "update" } /\ call.route_called

\* C5: set_route raises, and never returns normally, whenever the shortest
\* path from start to end has fewer than 3 nodes, the case that there is no
\* path included; the caller gets the exception and nothing is tried again:
\* the path that was found is the one left behind.
C5_ShortRouteRaises ==
    \A v \in Vehicles :
        LET call == last_call[v]
        IN  ( /\ RanSetRoute(call)
              /\ Distance({ call.start }, { call.start }, call.end, 0) < 2 ) =>
                /\ call.raised = "AssertionError"
                /\ Len(checkpoints[v]) < 3
                /\ checkpoints[v] = shortest_path(call.start, call.end)

\* set_route raised for an end node that cannot be reached from the start
C5_Witness ==
    \E v \in Vehicles :
        /\ last_call[v].op = "set_route" /\ last_call[v].route_called
        /\ last_call[v].start # last_call[v].end
        /\ last_call[v].end \notin ReachableFrom({}, { last_call[v].start })
        /\ last_call[v].raised = "AssertionError"

\* C6, as stated: for every pair of distinct nodes with the end node
\* reachable from the start node, set_route leaves a route of at least 3
\* nodes whose last node is the end node.  An end node one road away from
\* the start node is reachable, and set_route raises for it.
C6_ReachablePairRouted ==
    \A v \in Vehicles :
        LET call == last_call[v]
            route == checkpoints[v]
        IN  ( /\ RanSetRoute(call)
              /\ call.start # call.end
              /\ call.end \in ReachableFrom({}, { call.start }) ) =>
                /\ call.raised = None
                /\ Len(route) >= 3
                /\ route[Len(route)] = call.end

\* C6, amended: for every pair of nodes with the end node reachable from the
\* start node and at least two roads away, set_route returns normally and
\* leaves a route of at least 3 nodes, along roads of the map, from the
\* start node to the end node.
C6_ValidPairRouted ==
    \A v \in Vehicles :
        LET call == last_call[v]
            route == checkpoints[v]
        IN  ( /\ RanSetRoute(call)
              /\ Distance({ call.start }, { call.start }, call.end, 0) >= 2 ) =>
                /\ call.raised = None
                /\ Len(route) >= 3
                /\ route[Len(route)] = call.end
                /\ route[1] = call.start
                /\ \A k \in 1..(Len(route) - 1) : <<route[k], route[k + 1]>> \in Roads

\* set_route returned with the shortest route there is: 3 nodes
C6_Witness ==
    \E v \in Vehicles :
        /\ last_call[v].op = "set_route" /\ last_call[v].raised = None
        /\ Len(checkpoints[v]) = 3
        /\ checkpoints[v][3] = last_call[v].end

\* the nodes of a socket: the ends of its road and of the reverse road
SocketNodes(socket) ==
    { socket.positive_road[1], socket.positive_road[2],
      socket.negative_road[1], socket.negative_road[2] }

\* the sockets update() draws from for a spawn lane
BlockSockets(lane_index) ==
    IF lane_index[1] \in NegativeNodes THEN FirstBlockSockets ELSE LastBlockSockets

\* C10: update() without a destination never ends with a socket of the start
\* node selected; sockets of the start node are removed and another one is
\* drawn, so a second draw means a socket was removed; if no socket of the
\* block qualifies update() raises, set_route is not called and the route
\* state stays as it was.
C10_DestinationDraw ==
    /\ [] \A v \in Vehicles :
            LET call == last_call[v]
                sockets == BlockSockets(call.lane_index)
                qualifying == { k \in 1..Len(sockets) :
                                  call.start \notin SocketNodes(sockets[k]) }
            IN  call.op = "update" /\ call.final_road_node = None =>
                  /\ call.start = call.lane_index[1]
                  /\ (call.raised = "ValueError") = (qualifying = {})
                  /\ call.raised = "ValueError" =>
                        ~ call.route_called /\ call.socket = NoSocket
                  /\ call.raised # "ValueError" =>
                        /\ call.route_called
                        /\ \E k \in qualifying : call.socket = sockets[k]
                        /\ call.draws >= 1
                        /\ call.draws <= 1 + Len(sockets) - Cardinality(qualifying)
    /\ [][ \A v \in Vehicles :
             last_call'[v].op = "update" /\ last_call'[v].raised = "ValueError" =>
                 /\ checkpoints'[v] = checkpoints[v]
                 /\ final_road'[v] = final_road[v]
                 /\ final_lane'[v] = final_lane[v]
                 /\ current_ref_lanes'[v] = current_ref_lanes[v]
                 /\ current_road'[v] = current_road[v]
                 /\ _target_checkpoints_index'[v] = _target_checkpoints_index[v]
                 /\ _navi_info'[v] = _navi_info[v]
         ]_vars

\* the first socket drawn was one of the start node, and the second was not
C10_Witness ==
    \E v \in Vehicles :
        /\ last_call[v].op = "update" /\ last_call[v].final_road_node = None
        /\ last_call[v].draws = 2
        /\ last_call[v].raised = None
        /\ last_call[v].start \notin SocketNodes(last_call[v].socket)

\* C20: update() without a destination draws from the first block's sockets
\* when the spawn lane's road is negative and from the last block's otherwise,
\* and routes to the drawn socket's negative-road end node for a negative
\* spawn road and to its positive-road end node otherwise; update() with a
\* final_road_node draws no socket and plans the route from the spawn lane's
\* start node to that node.
C20_DestinationByPolarity ==
    \A v \in Vehicles :
        LET call == last_call[v]
            negative == call.lane_index[1] \in NegativeNodes
            SocketsOf(list) == { list[k] : k \in 1..Len(list) }
        IN  call.op = "update" /\ call.route_called =>
              /\ call.start = call.lane_index[1]
              /\ call.raised \in { None, "AssertionError" } =>
                    checkpoints[v] = shortest_path(call.start, call.end)
              /\ call.final_road_node = None =>
                    /\ call.draws >= 1
                    /\ call.socket \in SocketsOf(IF negative THEN FirstBlockSockets
                                                  ELSE LastBlockSockets)
                    /\ call.end = IF negative THEN call.socket.negative_road[2]
                                  ELSE call.socket.positive_road[2]
              /\ call.final_road_node # None =>
                    /\ call.draws = 0
                    /\ call.socket = NoSocket
                    /\ call.end = call.final_road_node

\* a vehicle spawned on a negative road got the negative-road end node of a
\* socket of the first block as its destination
C20_Witness ==
    \E v \in Vehicles :
        LET call == last_call[v]
        IN  /\ call.op = "update" /\ call.route_called /\ call.raised = None
            /\ call.final_road_node = None
            /\ call.lane_index[1] \in NegativeNodes
            /\ call.socket = FirstBlockSockets[1]
            /\ call.end = call.socket.negative_road[2]
            /\ checkpoints[v][Len(checkpoints[v])] = call.end

\* C24: the destination draw of update() ends for every non-empty socket
\* list, after at most as many iterations as the block has sockets: with a
\* socket selected, or, every socket having been removed, with the error
\* 'Can not set a destination!'.
C24_DrawEnds ==
    \A v \in Vehicles :
        LET call == last_call[v]
            size == Len(BlockSockets(call.lane_index))
        IN  call.op = "update" /\ call.final_road_node = None /\ size > 0 =>
              /\ call.draws \in 1..size
              /\ (call.socket # NoSocket) = (call.raised # "ValueError")
              /\ call.raised = "ValueError" => call.draws = size
              /\ call.socket # NoSocket => call.route_called

\* the draw removed every socket of the block and ended with the error
C24_Witness ==
    \E v \in Vehicles :
        /\ last_call[v].op = "update" /\ last_call[v].final_road_node = None
        /\ last_call[v].raised = "ValueError"
        /\ last_call[v].draws = Len(BlockSockets(last_call[v].lane_index))
        /\ last_call[v].socket = NoSocket

(***************************************************************************)
(* Properties of the tick.                                                 *)
(***************************************************************************)
Returned(call) == Ticked(call) /\ call.raised = None

\* C9: the force flag is off by default.  A tick whose ray cast finds no lane
\* sets the vehicle's on_lane to false and runs the checkpoint update with
\* the vehicle's last-known lane index; the nearest-lane search runs only if
\* the force flag is set.  A tick whose ray cast finds a lane leaves on_lane
\* as it was, runs no search and uses the lane found.
C9_MissFallback ==
    /\ \A v \in Vehicles : FORCE_CALCULATE[v] = FALSE
    /\ [][ \A v \in Vehicles :
             Returned(last_call'[v]) =>
                 LET call == last_call'[v]
                     tracked == _update_target_checkpoints(
                                    _target_checkpoints_index[v], checkpoints[v],
                                    call.lane_index, call.long)
                 IN  /\ ~ call.found =>
                           /\ ego_vehicle'[v].on_lane = FALSE
                           /\ call.searched = FORCE_CALCULATE[v]
                           /\ ~ FORCE_CALCULATE[v] =>
                                 call.lane_index = ego_vehicle[v].lane_index
                     /\ call.found =>
                           /\ ego_vehicle'[v].on_lane = ego_vehicle[v].on_lane
                           /\ ~ call.searched
                     /\ call # last_call[v] =>
                           _target_checkpoints_index'[v] = tracked.index
                     /\ ego_vehicle'[v].lane_index = call.lane_index
         ]_vars

\* a tick without a lane and without the force flag moved the window on the
\* strength of the last-known lane index
C9_Witness ==
    \E v \in Vehicles :
        /\ Returned(last_call[v])
        /\ ~ last_call[v].found /\ ~ last_call[v].searched
        /\ ~ FORCE_CALCULATE[v]
        /\ ~ ego_vehicle[v].on_lane
        /\ last_call[v].moved
        /\ last_call[v].lane_index = ego_vehicle[v].lane_index

\* C7: get_navi_info() is a vector of exactly 10 elements, each in [0, 1],
\* in every reachable state: after construction, after set_route and after
\* any number of ticks; after a tick its first 5 elements are the encoding
\* of the near checkpoint and its last 5 that of the far checkpoint.
C7_NaviInfoRange ==
    \A v \in Vehicles :
        LET info == get_navi_info(v)
            half == navigation_info_dim \div 2
        IN  /\ Len(info) = 10
            /\ \A k \in 1..Len(info) : FLeq(Zero, info[k]) /\ FLeq(info[k], One)
            /\ Returned(last_call[v]) =>
                  LET route == checkpoints[v]
                      i == _target_checkpoints_index[v][1]
                      j == _target_checkpoints_index[v][2]
                      near == info_for_checkpoint(0,
                                  graph(route[i + 1], route[i + 2]),
                                  last_call[v].pose, LANE_NUM, LANE_WIDTH).info
                      far == info_for_checkpoint(1,
                                  graph(route[j + 1], route[j + 2]),
                                  last_call[v].pose, LANE_NUM, LANE_WIDTH).info
                  IN  /\ SubSeq(info, 1, half) = near
                      /\ SubSeq(info, half + 1, 2 * half) = far

\* after a tick whose near checkpoint ends a bend wider than the widest
\* bend of the encoding and whose far checkpoint ends a straight road: the
\* radius and the angle of the near half are clipped to 1
C7_Witness ==
    \E v \in Vehicles :
        /\ Returned(last_call[v])
        /\ current_road[v] = <<"-x1", "->>>">>
        /\ get_navi_info(v)[3] = One
        /\ get_navi_info(v)[5] = One
        /\ get_navi_info(v)[8] = Zero
        /\ get_navi_info(v)[1] # get_navi_info(v)[6]

\* the lanes of a list, as a set
LanesOf(lanes) == { lanes[k] : k \in 1..Len(lanes) }

\* C8: get_current_lane returns, of the ray-cast candidates in the order of
\* their distance, the first whose lane is one of current_ref_lanes, nearer
\* candidates off the route notwithstanding; the nearest candidate if none is
\* on the route; and (None, None) if there is no candidate.
C8_RouteBiasedLane ==
    probe.done =>
        LET hits == probe.possible_lanes
            on_route == { k \in 1..Len(hits) : hits[k][1] \in LanesOf(probe.ref_lanes) }
        IN  /\ \A k \in on_route :
                  (\A m \in 1..(k - 1) : m \notin on_route) =>
                      probe.result = <<hits[k][1], hits[k][2]>>
            /\ on_route = {} /\ Len(hits) > 0 =>
                  probe.result = <<hits[1][1], hits[1][2]>>
            /\ Len(hits) = 0 => probe.result = <<NoneT, NoneT>>

\* the nearest hit is off the route and the second is on it, and the second
\* is returned
C8_Witness ==
    /\ probe.done
    /\ Len(probe.possible_lanes) = 2
    /\ probe.possible_lanes[1][1] \notin LanesOf(probe.ref_lanes)
    /\ probe.possible_lanes[2][1] \in LanesOf(probe.ref_lanes)
    /\ probe.result = <<probe.possible_lanes[2][1], probe.possible_lanes[2][2]>>
    /\ probe.result # <<probe.possible_lanes[1][1], probe.possible_lanes[1][2]>>

(***************************************************************************)
(* The transitions of the checkpoint window.  A tick on a module whose     *)
(* route was set has called _update_target_checkpoints with                *)
(* last_call.lane_index and last_call.long on the window                   *)
(* last_call.prev_index, whether it returned afterwards or raised.         *)
(***************************************************************************)
UpdateRan(call) == Ticked(call) /\ call.prev_index # NoneT

\* the 0-based indices k >= j, the last node of the route left out, at which
\* node is in the route
OccurrencesButLast(route, node, j) ==
    { k \in j..(Len(route) - 2) : route[k + 1] = node }

\* C12: with the window [i, j] not terminal, the start node of the reported
\* lane in route[j:-1] and the longitudinal offset below CKPT_UPDATE_RANGE,
\* the new i is the index of the first occurrence of the node at or after j
\* (checkpoints in between are skipped) and the new j is i + 1, or i if
\* i + 1 = len(route) - 1.  For a route [A, B, C] the window stays [0, 1]
\* on a tick reporting the segment from A and becomes [1, 1] on a tick
\* reporting the segment from B within the range.
C12_AdvanceRule ==
    [][ \A v \in Vehicles :
          ( /\ UpdateRan(last_call'[v])
            /\ last_call'[v] # last_call[v] ) =>
              LET route == checkpoints[v]
                  window == _target_checkpoints_index[v]
                  new == _target_checkpoints_index'[v]
                  node == last_call'[v].lane_index[1]
                  long == last_call'[v].long
                  found == OccurrencesButLast(route, node, window[2])
              IN  /\ ( /\ window[1] # window[2]
                        /\ found # {}
                        /\ long < 5 ) =>
                          /\ new[1] \in found
                          /\ \A k \in found : new[1] <= k
                          /\ new[2] = IF new[1] + 1 = Len(route) - 1
                                      THEN new[1] ELSE new[1] + 1
                  /\ Len(route) = 3 /\ window = <<0, 1>> /\ node = route[1] =>
                          new = <<0, 1>>
                  /\ Len(route) = 3 /\ window = <<0, 1>> /\ node = route[2] /\ long < 5 =>
                          new = <<1, 1>>
      ]_vars

\* a tick moved the window from [0, 1] to [2, 3]: checkpoint 1 was skipped
C12_Witness ==
    \E v \in Vehicles :
        /\ Returned(last_call[v]) /\ last_call[v].moved
        /\ last_call[v].prev_index = <<0, 1>>
        /\ _target_checkpoints_index[v] = <<2, 3>>
        /\ last_call[v].lane_index[1] = At(checkpoints[v], 2)

\* the 0-based indices k >= j at which node is in the route
Occurrences(route, node, j) ==
    { k \in j..(Len(route) - 1) : route[k + 1] = node }

\* C13: the window is left as it is, and the checkpoint update returns
\* False, unless the start node of the reported lane is in route[j:] and the
\* longitudinal offset is strictly below CKPT_UPDATE_RANGE: a start node off
\* the route, a start node before index j, or an offset of CKPT_UPDATE_RANGE
\* or more never changes the window.
C13_NoTransitionOutsideGuard ==
    [][ \A v \in Vehicles :
          ( /\ UpdateRan(last_call'[v])
            /\ last_call'[v] # last_call[v] ) =>
              LET route == checkpoints[v]
                  window == _target_checkpoints_index[v]
                  node == last_call'[v].lane_index[1]
                  long == last_call'[v].long
              IN  ( \/ Occurrences(route, node, window[2]) = {}
                    \/ long >= 5 ) =>
                      /\ _target_checkpoints_index'[v] = window
                      /\ ~ last_call'[v].moved
      ]_vars

\* a tick at exactly CKPT_UPDATE_RANGE on the road of the far checkpoint
\* left the window [0, 1] as it was
C13_Witness ==
    \E v \in Vehicles :
        /\ Returned(last_call[v]) /\ ~ last_call[v].moved
        /\ last_call[v].long = CKPT_UPDATE_RANGE
        /\ last_call[v].prev_index = <<0, 1>>
        /\ _target_checkpoints_index[v] = <<0, 1>>
        /\ Len(checkpoints[v]) > 3
        /\ last_call[v].lane_index[1] = At(checkpoints[v], 1)

\* C14: a reported start node that is in route[j:] only as the last node of
\* the route (not in route[j:-1]) makes no transition, within the update
\* range as well: the destination node is never taken for a checkpoint,
\* and the window is left as it is.
C14_DestinationNotMatched ==
    [][ \A v \in Vehicles :
          ( /\ UpdateRan(last_call'[v])
            /\ last_call'[v] # last_call[v] ) =>
              LET route == checkpoints[v]
                  window == _target_checkpoints_index[v]
                  node == last_call'[v].lane_index[1]
              IN  ( /\ Len(route) > 0
                    /\ node = route[Len(route)]
                    /\ \A k \in (window[2] + 1)..(Len(route) - 1) : route[k] # node ) =>
                      /\ _target_checkpoints_index'[v] = window
                      /\ ~ last_call'[v].moved
      ]_vars

\* a tick within the update range on the road that starts at the destination
\* node left the window [0, 1] as it was
C14_Witness ==
    \E v \in Vehicles :
        /\ Returned(last_call[v]) /\ ~ last_call[v].moved
        /\ last_call[v].long < CKPT_UPDATE_RANGE
        /\ last_call[v].lane_index[1] = checkpoints[v][Len(checkpoints[v])]
        /\ last_call[v].prev_index = <<0, 1>>
        /\ _target_checkpoints_index[v] = <<0, 1>>

\* a set_route has returned normally on the module of v: only set_route sets
\* the window
RouteWasSet(v) == _target_checkpoints_index[v] # NoneT

\* C15: in every state after a set_route that returned normally the window
\* is [i, i + 1] or [i, i], and it is [i, i] if and only if
\* i = len(route) - 2, that is when the near checkpoint is the last road of
\* the route.
C15_WindowShape ==
    \A v \in Vehicles :
        RouteWasSet(v) =>
            LET i == _target_checkpoints_index[v][1]
                j == _target_checkpoints_index[v][2]
            IN  /\ Len(_target_checkpoints_index[v]) = 2
                /\ j = i + 1 \/ j = i
                /\ (j = i) = (i = Len(checkpoints[v]) - 2)

\* The same while the route is that of the last set_route that returned.
WindowShapeWhileEstablished ==
    \A v \in Vehicles :
        RouteEstablished(v) =>
            LET i == _target_checkpoints_index[v][1]
                j == _target_checkpoints_index[v][2]
            IN  /\ Len(_target_checkpoints_index[v]) = 2
                /\ j = i + 1 \/ j = i
                /\ (j = i) = (i = Len(checkpoints[v]) - 2)

\* the last call on the module of v set a route or was a tick
RouteSetOrTicked(call) ==
    \/ call.op \in { "set_route", "update" } /\ call.raised = None
    \/ Ticked(call)

\* C16: after a set_route that returned normally and after every tick,
\* current_road is (route[i], route[i + 1]) and current_ref_lanes are the
\* lanes of that road, i being the first index of the window after the
\* tick's checkpoint update; in every tick the lookups route[i + 1] and
\* route[j + 1] are within the route and the assertion that the route has
\* more than 2 nodes holds: the tick returns.
C16_TickLookups ==
    \A v \in Vehicles :
        RouteWasSet(v) /\ RouteSetOrTicked(last_call[v]) =>
            LET route == checkpoints[v]
                i == _target_checkpoints_index[v][1]
                j == _target_checkpoints_index[v][2]
            IN  /\ last_call[v].raised = None
                /\ Len(route) > 2
                /\ i + 1 < Len(route) /\ j + 1 < Len(route)
                /\ current_road[v] = <<route[i + 1], route[i + 2]>>
                /\ current_ref_lanes[v] =
                      [ k \in 1..LANE_NUM |-> <<route[i + 1], route[i + 2], k - 1>> ]

\* The same while the route is that of the last set_route that returned.
TickLookupsWhileEstablished ==
    \A v \in Vehicles :
        RouteEstablished(v) /\ RouteSetOrTicked(last_call[v]) =>
            LET route == checkpoints[v]
                i == _target_checkpoints_index[v][1]
                j == _target_checkpoints_index[v][2]
            IN  /\ last_call[v].raised = None
                /\ i + 1 < Len(route) /\ j + 1 < Len(route)
                /\ current_road[v] = <<route[i + 1], route[i + 2]>>
                /\ current_ref_lanes[v] =
                      [ k \in 1..LANE_NUM |-> <<route[i + 1], route[i + 2], k - 1>> ]

\* C17: a set_route that fails because the shortest path has fewer than 3
\* nodes leaves the module as it was before the call: the route, the
\* window, the feature vector, the final road and lane, the reference lanes
\* and the current road are unchanged.
C17_FailedSetRouteKeepsState ==
    [][ \A v \in Vehicles :
          ( /\ RanSetRoute(last_call'[v])
            /\ last_call'[v].raised = "AssertionError" ) =>
              /\ checkpoints'[v] = checkpoints[v]
              /\ _target_checkpoints_index'[v] = _target_checkpoints_index[v]
              /\ _navi_info'[v] = _navi_info[v]
              /\ final_road'[v] = final_road[v]
              /\ final_lane'[v] = final_lane[v]
              /\ current_ref_lanes'[v] = current_ref_lanes[v]
              /\ current_road'[v] = current_road[v]
      ]_vars

\* What a failed set_route does leave as it was: everything but the route.
FailedSetRouteKeepsAllButRoute ==
    [][ \A v \in Vehicles :
          ( /\ RanSetRoute(last_call'[v])
            /\ last_call'[v].raised = "AssertionError" ) =>
              /\ checkpoints'[v] = shortest_path(last_call'[v].start, last_call'[v].end)
              /\ _target_checkpoints_index'[v] = _target_checkpoints_index[v]
              /\ _navi_info'[v] = _navi_info[v]
              /\ final_road'[v] = final_road[v]
              /\ final_lane'[v] = final_lane[v]
              /\ current_ref_lanes'[v] = current_ref_lanes[v]
              /\ current_road'[v] = current_road[v]
      ]_vars

\* C18: for a fixed route and a window that is not terminal, a tick that
\* reports the vehicle on the road starting at route[len(route) - 2] with a
\* longitudinal offset below CKPT_UPDATE_RANGE makes the window
\* [len(route) - 2, len(route) - 2], whatever ticks came before and whichever
\* checkpoints were never reported, and every later tick leaves it there.
C18_LastRoadMakesTerminal ==
    [][ \A v \in Vehicles :
          LET route == checkpoints[v]
              window == _target_checkpoints_index[v]
              call == last_call'[v]
          IN  /\ ( /\ UpdateRan(call) /\ call # last_call[v]
                    /\ window[1] # window[2]
                    /\ Len(route) >= 2
                    /\ call.lane_index[1] = route[Len(route) - 1]
                    /\ call.long < 5 ) =>
                      _target_checkpoints_index'[v] = <<Len(route) - 2, Len(route) - 2>>
              /\ ( /\ Ticked(call)
                    /\ Terminal(v) ) =>
                      _target_checkpoints_index'[v] = window
      ]_vars

\* The same while the route is that of the last set_route that returned.
LastRoadMakesTerminalWhileEstablished ==
    [][ \A v \in Vehicles :
          LET route == checkpoints[v]
              window == _target_checkpoints_index[v]
              call == last_call'[v]
          IN  /\ ( /\ RouteEstablished(v)
                    /\ UpdateRan(call) /\ call # last_call[v]
                    /\ window[1] # window[2]
                    /\ call.lane_index[1] = route[Len(route) - 1]
                    /\ call.long < 5 ) =>
                      /\ _target_checkpoints_index'[v] = <<Len(route) - 2, Len(route) - 2>>
                      /\ call.raised = None
              /\ ( /\ Ticked(call)
                    /\ Terminal(v) ) =>
                      _target_checkpoints_index'[v] = window
      ]_vars

\* the window of a five-node route went from [0, 1] to [3, 3] in one tick
LastRoadMakesTerminalReached ==
    \E v \in Vehicles :
        /\ Returned(last_call[v]) /\ last_call[v].moved
        /\ Len(checkpoints[v]) = 5
        /\ last_call[v].prev_index = <<0, 1>>
        /\ _target_checkpoints_index[v] = <<3, 3>>

\* C19: _update_target_checkpoints returns True exactly when it changed the
\* window and False exactly when it left it as it was; a change strictly
\* increases the first index: the new i is at least the old j, which is
\* greater than the old i.
C19_ReturnTellsChange ==
    [][ \A v \in Vehicles :
          ( /\ UpdateRan(last_call'[v])
            /\ last_call'[v] # last_call[v] ) =>
              LET window == _target_checkpoints_index[v]
                  new == _target_checkpoints_index'[v]
              IN  /\ last_call'[v].prev_index = window
                  /\ last_call'[v].moved = (new # window)
                  /\ new # window =>
                        /\ new[1] >= window[2]
                        /\ window[2] > window[1]
                        /\ new[1] > window[1]
      ]_vars

\* the update returned True on moving the window from [1, 2] to [3, 3]
C19_Witness ==
    \E v \in Vehicles :
        /\ Returned(last_call[v]) /\ last_call[v].moved
        /\ last_call[v].prev_index = <<1, 2>>
        /\ _target_checkpoints_index[v] = <<3, 3>>

(***************************************************************************)
(* Properties of several vehicles on one map.                              *)
(***************************************************************************)
\* C11: a call on the module of one vehicle (update, set_route, a tick,
\* set_force_calculate_lane_index) leaves the route, the window, the feature
\* vector, the force flag and every other field of each other vehicle's
\* module as they were, in any order of the vehicles' calls.  (The road
\* network is only read: no call has an assignment to it.)
C11_OtherVehiclesUntouched ==
    [][ \E v \in Vehicles :
          \A w \in Vehicles \ { v } :
              /\ checkpoints'[w] = checkpoints[w]
              /\ _target_checkpoints_index'[w] = _target_checkpoints_index[w]
              /\ _navi_info'[w] = _navi_info[w]
              /\ FORCE_CALCULATE'[w] = FORCE_CALCULATE[w]
              /\ final_road'[w] = final_road[w]
              /\ final_lane'[w] = final_lane[w]
              /\ current_ref_lanes'[w] = current_ref_lanes[w]
              /\ current_road'[w] = current_road[w]
              /\ map'[w] = map[w]
              /\ ego_vehicle'[w] = ego_vehicle[w]
              /\ last_call'[w] = last_call[w]
      ]_vars

\* two vehicles with different routes, windows, feature vectors and flags
C11_Witness ==
    /\ Len(checkpoints["v1"]) = 4 /\ Len(checkpoints["v2"]) = 3
    /\ _target_checkpoints_index["v1"] = <<2, 2>>
    /\ _target_checkpoints_index["v2"] = <<0, 1>>
    /\ FORCE_CALCULATE["v1"] /\ ~ FORCE_CALCULATE["v2"]
    /\ _navi_info["v1"] # _navi_info["v2"]
    /\ Ticked(last_call["v1"]) /\ Ticked(last_call["v2"])

(***************************************************************************)
(* Properties of the encoder.                                              *)
(***************************************************************************)
\* C21: whenever the window is terminal at the end of a tick, the first five
\* and the last five elements of the feature vector are equal: both
\* checkpoints are encoded from the same reference lanes, and no scalar
\* depends on which of the two is encoded.
C21_TerminalHalvesEqual ==
    \A v \in Vehicles :
        LET info == get_navi_info(v)
            half == navigation_info_dim \div 2
        IN  Ticked(last_call[v]) /\ Terminal(v) =>
                SubSeq(info, 1, half) = SubSeq(info, half + 1, 2 * half)

\* the tick that made the window terminal returned a vector with a direction
\* that the cut to NAVI_POINT_DIST shortened, the same in both halves
C21_Witness ==
    \E v \in Vehicles :
        LET info == get_navi_info(v)
        IN  /\ Returned(last_call[v]) /\ last_call[v].moved /\ Terminal(v)
            /\ current_road[v] = <<">>>", "x1">>
            /\ info[1] = info[6] /\ info[2] = info[7]
            /\ FLess(Zero, info[2]) /\ FLess(info[1], One)
            /\ info[5] = info[10] /\ FLess(Whole(1) , FAdd(info[5], info[5]))

\* clip((rad2deg(angle) / max_angle_const + 1) / 2, 0, 1)
AngleScalar(angle) ==
    clip(FDiv(FAdd(FDiv(rad2deg(angle), Whole(CURVE_angle_max)), One), Whole(2)), Zero, One)

\* the 5-tuple of a checkpoint at the end of road has the bend scalars of road
BendScalars(tuple, road) ==
    LET g == Geometry(road)
    IN  /\ g.kind = "circular" /\ g.direction = 1 =>
              tuple[5] = AngleScalar(g.end_phase - g.start_phase)
        /\ g.kind = "circular" /\ g.direction = -1 =>
              tuple[5] = AngleScalar(g.start_phase - g.end_phase)
        /\ g.kind = "straight" =>
              /\ tuple[3] = Zero
              /\ tuple[4] = Frac(1, 2)
              /\ tuple[5] = Frac(1, 2)

\* C22: for a circular reference lane of direction +1 the angle scalar is
\* clip((rad2deg(end_phase - start_phase) / max_angle_const + 1) / 2, 0, 1),
\* for direction -1 the angle is start_phase - end_phase; for a straight
\* reference lane the last three scalars of the checkpoint's 5-tuple are 0,
\* 0.5 and 0.5.
C22_BendScalars ==
    \A v \in Vehicles :
        Returned(last_call[v]) =>
            LET route == checkpoints[v]
                window == _target_checkpoints_index[v]
                info == get_navi_info(v)
                half == navigation_info_dim \div 2
            IN  /\ BendScalars(SubSeq(info, 1, half),
                               <<At(route, window[1]), At(route, window[1] + 1)>>)
                /\ BendScalars(SubSeq(info, half + 1, 2 * half),
                               <<At(route, window[2]), At(route, window[2] + 1)>>)

\* a tick whose first checkpoint ends a straight road and whose second ends
\* a bend of direction -1 over a quarter turn
C22_Witness ==
    \E v \in Vehicles :
        LET info == get_navi_info(v)
        IN  /\ Returned(last_call[v])
            /\ checkpoints[v] = << ">", ">>", ">>>", "y1" >>
            /\ _target_checkpoints_index[v] = <<1, 2>>
            /\ Geometry(<<">>>", "y1">>).direction = -1
            /\ <<info[3], info[4], info[5]>> = <<Zero, Frac(1, 2), Frac(1, 2)>>
            /\ info[9] = Zero
            /\ info[10] = Frac(5, 6)

\* d is the length of the vector (x, y) to within 1 / NormDigits
IsLength(d, x, y) ==
    LET next == FAdd(d, Frac(1, NormDigits))
    IN  /\ FLeq(FMul(d, d), Whole(x * x + y * y))
        /\ FLess(Whole(x * x + y * y), FMul(next, next))

\* C23: with the checkpoint farther than NAVI_POINT_DIST from the vehicle,
\* the direction vector used, and with it its projection on the vehicle's
\* axes, is the original one times NAVI_POINT_DIST / original_distance: it
\* keeps the direction of the original and has magnitude NAVI_POINT_DIST,
\* to the precision of the distance; a vector of magnitude at most
\* NAVI_POINT_DIST is left unchanged.
C23_DirectionClamp ==
    \A v \in Vehicles :
        LET call == last_call[v]
        IN  Returned(call) =>
              LET original == << call.check_point[1] - call.pose.position[1],
                                 call.check_point[2] - call.pose.position[2] >>
                  original_distance == norm(original[1], original[2])
                  ratio == FDiv(Whole(NAVI_POINT_DIST), original_distance)
                  whole == << Whole(original[1]), Whole(original[2]) >>
                  unclamped == projection(call.pose.heading, whole)
                  clamped == projection(call.pose.heading, call.dir_vec)
                  info == get_navi_info(v)
              IN  /\ call.check_point =
                        position_at_end(current_ref_lanes[v][1],
                                        later_middle(LANE_NUM, LANE_WIDTH))
                  /\ IsLength(original_distance, original[1], original[2])
                  /\ FLess(Whole(NAVI_POINT_DIST), original_distance) =>
                        /\ FLess(Zero, ratio)
                        /\ \A k \in 1..2 :
                              /\ call.dir_vec[k] = FMul(whole[k], ratio)
                              /\ clamped[k] = FMul(unclamped[k], ratio)
                  /\ FLeq(original_distance, Whole(NAVI_POINT_DIST)) =>
                        call.dir_vec = whole
                  /\ \A k \in 1..2 :
                        info[k] = clip(FDiv(FAdd(FDiv(clamped[k], Whole(NAVI_POINT_DIST)),
                                                 One), Whole(2)), Zero, One)

\* a tick with the checkpoint 100 ahead of the vehicle: the direction used
\* is half the original, of length NAVI_POINT_DIST
C23_Witness ==
    \E v \in Vehicles :
        /\ Returned(last_call[v])
        /\ last_call[v].pose = Pose(<<0, 2>>, <<1, 0>>)
        /\ last_call[v].check_point = <<100, 2>>
        /\ last_call[v].dir_vec = << Whole(NAVI_POINT_DIST), Zero >>
        /\ get_navi_info(v)[1] = One

====
